---- MODULE Spec2Model ----
(***************************************************************************)
(* Cross-chain bridge event listener (src/script.py): StateDB, the          *)
(* BridgeContractHandler and the EventProcessor main loop.                   *)
(*                                                                           *)
(* The two chains, the fee oracle and the file system are the environment:  *)
(* every call into them has each outcome the code handles (a value, an      *)
(* exception), chosen nondeterministically.  The process may crash between  *)
(* any two steps and inside a state flush, and be restarted.                *)
(***************************************************************************)
EXTENDS Integers, Sequences, FiniteSets, TLC

\* ---------------------------------------------------------------- bounds
\* Highest source block the source chain reaches.
MaxBlock == 2
\* Number of deposit events on the source chain.
MaxEvents == 2

\* ------------------------------------------------------- program constants
\* DESTINATION_CHAIN_ID_TO_LISTEN_FOR, handed to EventProcessor.
target_chain_id == 97
\* A destination chain id this listener is not responsible for.
other_chain_id == target_chain_id + 1
\* EventProcessor.block_scan_range; the program's value is 100, scaled down
\* here so that a window is smaller than the chain.
block_scan_range == 1

Blocks == 1..MaxBlock
\* k events carry at most k different nonces.
Nonces == 1..MaxEvents
ChainIds == {target_chain_id, other_chain_id}

\* ------------------------------------------------------------- data types
\* DepositEvent: the fields the relay reads (nonce, log_index,
\* destinationChainId) and the block of the log it was decoded from.
DepositEvent(b, n, i, d) ==
  [block |-> b, nonce |-> n, log_index |-> i, destinationChainId |-> d]

Range(s) == {s[i] : i \in 1..Len(s)}

Min(a, b) == IF a <= b THEN a ELSE b

\* The source chains considered: up to MaxEvents logs, laid out block by
\* block, the logs of one block numbered 0, 1, ... by log index.
ChainLayout(f) ==
  {DepositEvent(f[k][1], f[k][2],
                Cardinality({j \in 1..(k - 1) : f[j][1] = f[k][1]}),
                f[k][3]) : k \in DOMAIN f}

SourceChains ==
  {ChainLayout(f) :
     f \in {g \in UNION {[1..k -> Blocks \X Nonces \X ChainIds] : k \in 0..MaxEvents} :
              \A k \in DOMAIN g : k > 1 => g[k - 1][1] <= g[k][1]}}

\* Every order in which a set of logs can arrive from the node.
ArrivalOrders(S) ==
  {s \in [1..Cardinality(S) -> S] : \A i, j \in DOMAIN s : i # j => s[i] # s[j]}

\* --------------------------------------------------------------- StateDB
\* StateDB._load on a missing or invalid file.
DefaultState == [last_processed_block |-> 0, completed_nonces |-> <<>>]

\* The state file: json.load succeeds on it (valid) or not.
NoFile == [valid |-> FALSE, content |-> DefaultState]

_load(file) == IF file.valid THEN file.content ELSE DefaultState

\* How a flush can end: written; open() raised (file untouched); the write
\* raised after open() truncated the file; the process died during the write.
SaveOutcomes == {"ok", "open_failed", "write_failed", "crashed"}

_save(st, file, outcome) ==
  CASE outcome = "ok" -> [valid |-> TRUE, content |-> st]
    [] outcome = "open_failed" -> file
    [] OTHER -> NoFile

get_last_processed_block(st) == st.last_processed_block

set_last_processed_block(st, block_number) ==
  [st EXCEPT !.last_processed_block = block_number]

is_nonce_processed(st, nonce) == nonce \in Range(st.completed_nonces)

\* list.sort() on a list of integers.
RECURSIVE SortNat(_)
SortNat(s) ==
  IF s = <<>> THEN <<>>
  ELSE LET m == CHOOSE x \in Range(s) : \A y \in Range(s) : x <= y
           i == CHOOSE k \in 1..Len(s) : s[k] = m
       IN <<m>> \o SortNat(SubSeq(s, 1, i - 1) \o SubSeq(s, i + 1, Len(s)))

\* mark_nonce_as_processed without its "if nonce not in" test.
mark_nonce_as_processed_untested(st, nonce) ==
  [st EXCEPT !.completed_nonces = SortNat(Append(@, nonce))]

\* The in-memory effect of mark_nonce_as_processed; the flush that follows
\* (only when the nonce was absent) is in the action that calls it.
mark_nonce_as_processed(st, nonce) ==
  IF is_nonce_processed(st, nonce) THEN st
  ELSE [st EXCEPT !.completed_nonces = SortNat(Append(@, nonce))]

\* ------------------------------------------------------- EventProcessor
\* The key with its components swapped: (e.log_index, e.nonce).
KeyLessLogIndexFirst(a, b) ==
  \/ a.log_index < b.log_index
  \/ a.log_index = b.log_index /\ a.nonce < b.nonce

\* key=lambda e: (e.nonce, e.log_index)
KeyLess(a, b) ==
  \/ a.nonce < b.nonce
  \/ a.nonce = b.nonce /\ a.log_index < b.log_index

\* The loop over events as they arrived, without sorted().
sorted_arrival(events) == events

\* sorted(events, key=...): a stable sort.
RECURSIVE sorted(_)
sorted(events) ==
  IF events = <<>> THEN <<>>
  ELSE LET x == events[Len(events)]
           front == sorted(SubSeq(events, 1, Len(events) - 1))
           keep == {k \in 1..Len(front) : ~KeyLess(x, front[k])}
           n == Cardinality(keep)
       IN SubSeq(front, 1, n) \o <<x>> \o SubSeq(front, n + 1, Len(front))

\* The loop without the check for new blocks.
NoNewBlockUnchecked(from_block, latest_block) == FALSE

\* The check for new blocks off by one: from_block > latest_block + 1.
NoNewBlockOffByOne(from_block, latest_block) == from_block > latest_block + 1

\* if from_block > latest_block: nothing to scan.
NoNewBlock(from_block, latest_block) == from_block > latest_block

\* to_block of the window starting at from_block.
ToBlock(latest_block, from_block) ==
  Min(latest_block, from_block + block_scan_range)

\* What the environment does during one call of process_single_event:
\*   oracle  - the gas oracle answers, the request fails (RequestException),
\*             or the answer lacks the expected fields (KeyError, ValueError)
\*   send    - send_raw_transaction returns a hash or raises
\*   status  - how the submitted mint transaction executes on the destination chain
\*   receipt - get_transaction_receipt returns the receipt or raises
\*   save    - how the flush of mark_nonce_as_processed ends
Env(o, s, x, r, f) == [oracle |-> o, send |-> s, status |-> x, receipt |-> r, save |-> f]

\* Each environment once: what follows a call that raised is left at "ok".
Envs ==
  {Env("malformed", "ok", 0, "ok", "ok")}
  \cup {Env(o, "raised", 0, "ok", "ok") : o \in {"ok", "request_error"}}
  \cup {Env(o, "ok", x, "raised", "ok") : o \in {"ok", "request_error"}, x \in {0, 1}}
  \cup {Env(o, "ok", 0, "ok", "ok") : o \in {"ok", "request_error"}}
  \cup {Env(o, "ok", 1, "ok", f) : o \in {"ok", "request_error"}, f \in SaveOutcomes}

\* _fetch_gas_price_from_oracle: TRUE when it returns a price (fetched or the
\* default), FALSE when the exception leaves it.
_fetch_gas_price_from_oracle(oracle) == oracle # "malformed"

\* execute_mint: TRUE when it returns a transaction hash, FALSE for None.
execute_mint(send) == send = "ok"

\* The receipt check reduced to "if receipt:".
ReceiptConfirmsAny(status) == TRUE

\* The receipt check of process_single_event.
ReceiptConfirms(status) == status = 1

\* process_single_event without its filter (step 1).
process_single_event_unfiltered(st, event, env) ==
  IF is_nonce_processed(st, event.nonce) THEN "already_done"
  ELSE IF ~_fetch_gas_price_from_oracle(env.oracle) THEN "oracle_raised"
  ELSE IF ~execute_mint(env.send) THEN "dispatch_failed"
  ELSE IF env.receipt = "raised" THEN "receipt_error"
  ELSE IF ReceiptConfirms(env.status) THEN
         CASE env.save = "ok" -> "confirmed"
           [] env.save = "crashed" -> "flush_crashed"
           [] OTHER -> "flush_failed"
  ELSE "reverted"

\* process_single_event without its state check (step 2).
process_single_event_unchecked(st, event, env) ==
  IF event.destinationChainId # target_chain_id THEN "other_chain"
  ELSE IF ~_fetch_gas_price_from_oracle(env.oracle) THEN "oracle_raised"
  ELSE IF ~execute_mint(env.send) THEN "dispatch_failed"
  ELSE IF env.receipt = "raised" THEN "receipt_error"
  ELSE IF ReceiptConfirms(env.status) THEN
         CASE env.save = "ok" -> "confirmed"
           [] env.save = "crashed" -> "flush_crashed"
           [] OTHER -> "flush_failed"
  ELSE "reverted"

\* process_single_event, by the way the call ends:
\*   other_chain, already_done: True at the filter / at the state check
\*   oracle_raised: the oracle's exception leaves process_single_event
\*   dispatch_failed: execute_mint returned None, False
\*   receipt_error: get_transaction_receipt raised, False
\*   reverted: the receipt's status is not 1, False
\*   confirmed: status 1, nonce marked and flushed, True
\*   flush_failed: status 1, nonce marked in memory, the flush raised, False
\*   flush_crashed: status 1, nonce marked in memory, the process died in the flush
process_single_event(st, event, env) ==
  IF event.destinationChainId # target_chain_id THEN "other_chain"
  ELSE IF is_nonce_processed(st, event.nonce) THEN "already_done"
  ELSE IF ~_fetch_gas_price_from_oracle(env.oracle) THEN "oracle_raised"
  ELSE IF ~execute_mint(env.send) THEN "dispatch_failed"
  ELSE IF env.receipt = "raised" THEN "receipt_error"
  ELSE IF ReceiptConfirms(env.status) THEN
         CASE env.save = "ok" -> "confirmed"
           [] env.save = "crashed" -> "flush_crashed"
           [] OTHER -> "flush_failed"
  ELSE "reverted"

\* The calls in which execute_mint is invoked, those in which it returned a
\* hash, those in which the nonce is marked, and the return values.
Dispatching ==
  {"dispatch_failed", "receipt_error", "reverted", "confirmed", "flush_failed", "flush_crashed"}
Submitted == Dispatching \ {"dispatch_failed"}
ReceiptFetched == Submitted
MarkingOnAnyReceipt == {"confirmed", "flush_failed", "flush_crashed", "reverted"}
Marking == {"confirmed", "flush_failed", "flush_crashed"}
ReturnsTrue == {"other_chain", "already_done", "confirmed"}
ReturnsFalse == {"dispatch_failed", "receipt_error", "reverted", "flush_failed"}

\* The for loop without its break.
LoopNeverBreaks(path) == FALSE

\* if not success: break
LoopBreaks(path) == path \notin ReturnsTrue

\* The call submitted a mint transaction and the destination chain executed
\* it with success (whether or not the relay got to read the receipt).
Executed(path, env) == path \in Submitted /\ env.status = 1

\* One entry of the record kept of an iteration's calls: the event, how the
\* call ended, the status of the receipt it read (-1: it read none), and
\* whether a mint was executed.
Call(event, path, env) ==
  [rec |-> event, path |-> path,
   status |-> IF path \in Marking \cup {"reverted"} THEN env.status ELSE -1,
   executed |-> Executed(path, env)]

\* connector.get_events returns the logs or raises.
FetchOutcomes == {"ok", "fetch_raised"}

\* get_deposit_events: the decoded records in arrival order; [] when the
\* fetch raised or process_log raised on a log (malformed: that log, or
\* nothing; the loop ends at the first raise), since one try block holds the
\* whole loop.
get_deposit_events(raw_logs, outcome, malformed) ==
  IF outcome = "ok" /\ \A i \in DOMAIN raw_logs : raw_logs[i] \notin malformed
  THEN raw_logs
  ELSE <<>>

\* connector.get_events of a node that serves the range asked for.
get_events(logs, from, to) == {e \in logs : from <= e.block /\ e.block <= to}

VARIABLES
  chain,      \* the deposit logs of the source contract
  state,      \* StateDB.state, in memory
  file,       \* the state file
  pc,         \* where run is: "poll", "batch", "commit", "idle" (the sleep of line 315),
              \* "caught" (the except block of line 334); "down" after a crash
  from_block, \* run's local, 0 outside an iteration
  to_block,   \* run's local, 0 outside an iteration
  latest_block, \* run's local, 0 outside an iteration
  undecodable,  \* the log of the window under way that process_log raised on, as a set
  pending,    \* the records the for loop of run has still to visit, in order
  processed,  \* the calls of process_single_event of the iteration under way, with how each ended
  minted,     \* the nonces a mint transaction has executed with success for, on the destination chain
  held_back   \* <<r, q>>: in this process, r returned False in a window in which q sorted after it

vars ==
  <<chain, state, file, pc, from_block, to_block, latest_block, undecodable,
    pending, processed, minted, held_back>>

Init ==
  /\ chain \in SourceChains
  /\ state = DefaultState
  /\ file = NoFile
  /\ pc = "poll"
  /\ from_block = 0
  /\ to_block = 0
  /\ latest_block = 0
  /\ undecodable = {}
  /\ pending = <<>>
  /\ processed = <<>>
  /\ minted = {}
  /\ held_back = {}

\* ----------------------------------------------------------------- run
\* The locals of run as they are outside an iteration.
NoLocals ==
  /\ from_block' = 0
  /\ to_block' = 0
  /\ latest_block' = 0
  /\ undecodable' = {}

\* An iteration that finds no new block (lines 307-316): it sleeps and
\* continues.
NoNewBlocks ==
  /\ pc = "poll"
  /\ \E latest \in 0..MaxBlock :
       LET from == get_last_processed_block(state) + 1 IN
       /\ NoNewBlock(from, latest)
       /\ from_block' = from
       /\ to_block' = ToBlock(latest, from)
       /\ latest_block' = latest
  /\ pc' = "idle"
  /\ UNCHANGED <<chain, state, file, undecodable, pending, processed, minted, held_back>>

\* get_latest_block_number raises: caught at the bottom of the loop.
HeightQueryFails ==
  /\ pc = "poll"
  /\ pc' = "caught"
  /\ UNCHANGED <<chain, state, file, from_block, to_block, latest_block, undecodable,
                 pending, processed, minted, held_back>>

\* The window is computed and its events fetched and sorted: lines 307-322.
ScanWindow ==
  /\ pc = "poll"
  /\ \E latest \in 0..MaxBlock, outcome \in FetchOutcomes :
       LET from == get_last_processed_block(state) + 1
           to == ToBlock(latest, from)
           logs == get_events(chain, from, to)
       IN
       /\ ~NoNewBlock(from, latest)
       /\ \E malformed \in {{}} \cup {{log} : log \in logs}, raw_logs \in ArrivalOrders(logs) :
            LET events == get_deposit_events(raw_logs, outcome, malformed) IN
            /\ outcome = "fetch_raised" => malformed = {}
            /\ undecodable' = malformed
            /\ pending' = sorted(events)
            /\ pc' = IF events # <<>> THEN "batch" ELSE "commit"
       /\ from_block' = from
       /\ to_block' = to
       /\ latest_block' = latest
  /\ processed' = <<>>
  /\ UNCHANGED <<chain, state, file, minted, held_back>>

\* One pass of the for loop: process_single_event on the next record, then
\* the loop goes on, breaks, or is left by an exception: lines 322-328.
ProcessSingleEvent ==
  /\ pc = "batch"
  /\ \E env \in Envs :
       LET event == Head(pending)
           path == process_single_event(state, event, env)
           marked == IF path \in Marking
                     THEN mark_nonce_as_processed(state, event.nonce)
                     ELSE state
       IN
       /\ minted' = IF Executed(path, env) THEN minted \cup {event.nonce} ELSE minted
       /\ file' = IF path \in Marking THEN _save(marked, file, env.save) ELSE file
       /\ processed' = IF path = "oracle_raised" THEN <<>>
                        ELSE Append(processed, Call(event, path, env))
       /\ CASE path = "flush_crashed" ->
                 /\ state' = DefaultState
                 /\ pending' = <<>>
                 /\ pc' = "down"
                 /\ NoLocals
            [] path = "oracle_raised" ->
                 /\ state' = state
                 /\ pending' = <<>>
                 /\ pc' = "caught"
                 /\ NoLocals
            [] OTHER ->
                 /\ state' = marked
                 /\ pending' = IF LoopBreaks(path) THEN <<>> ELSE Tail(pending)
                 /\ pc' = IF LoopBreaks(path) \/ Tail(pending) = <<>>
                          THEN "commit" ELSE "batch"
                 /\ UNCHANGED <<from_block, to_block, latest_block, undecodable>>
       /\ held_back' =
            CASE path = "flush_crashed" -> {}
              [] path \in ReturnsFalse ->
                   held_back \cup {<<event, q>> : q \in Range(Tail(pending))}
              [] OTHER -> held_back
  /\ UNCHANGED chain

\* self.state_db.set_last_processed_block(to_block), reached when the for
\* loop ends and when it breaks: line 331. When the flush raises, the
\* exception is caught at line 334 with the memory already changed.
Commit ==
  /\ pc = "commit"
  /\ \E outcome \in SaveOutcomes :
       LET advanced == set_last_processed_block(state, to_block) IN
       /\ file' = _save(advanced, file, outcome)
       /\ held_back' = IF outcome = "crashed" THEN {} ELSE held_back
       /\ state' = IF outcome = "crashed" THEN DefaultState ELSE advanced
       /\ pc' = CASE outcome = "crashed" -> "down"
                  [] outcome = "ok" -> "poll"
                  [] OTHER -> "caught"
  /\ processed' = <<>>
  /\ NoLocals
  /\ UNCHANGED <<chain, pending, minted>>

\* time.sleep(self.poll_interval_seconds) of line 315 or line 337, then the
\* while loop starts its next iteration.
Sleep ==
  /\ pc \in {"idle", "caught"}
  /\ pc' = "poll"
  /\ NoLocals
  /\ UNCHANGED <<chain, state, file, pending, processed, minted, held_back>>

\* The process dies between two steps; its memory is lost.
Crash ==
  /\ pc # "down"
  /\ pc' = "down"
  /\ state' = DefaultState
  /\ pending' = <<>>
  /\ processed' = <<>>
  /\ NoLocals
  /\ held_back' = {}
  /\ UNCHANGED <<chain, file, minted>>

\* A new process: StateDB(db_path) loads the file, run starts.
Restart ==
  /\ pc = "down"
  /\ state' = _load(file)
  /\ pc' = "poll"
  /\ processed' = <<>>
  /\ UNCHANGED <<chain, file, from_block, to_block, latest_block, undecodable,
                 pending, minted, held_back>>

Next ==
  \/ NoNewBlocks
  \/ HeightQueryFails
  \/ ScanWindow
  \/ ProcessSingleEvent
  \/ Commit
  \/ Sleep
  \/ Crash
  \/ Restart

Spec == Init /\ [][Next]_vars

\* ------------------------------------------------------------ properties
lpb == get_last_processed_block(state)
completed == Range(state.completed_nonces)

\* A step of the running engine (neither a crash nor a restart).
Running == pc # "down" /\ pc' # "down"

\* The step is a call of process_single_event that returned or crashed in
\* its flush; TheCall is that call.
NewCall == Len(processed') = Len(processed) + 1
TheCall == processed'[Len(processed')]

\* process_single_event returned False in the iteration under way.
Halted == \E i \in DOMAIN processed : processed[i].path \in ReturnsFalse

\* The source contract never reuses a nonce.
UniqueNonces == \A e, g \in chain : e.nonce = g.nonce => e = g

\* C1: in an iteration in which process_single_event returned False, no
\* further record is processed and last_processed_block keeps its value.
C1_HaltLeavesBlock ==
  [][(Halted /\ Running) => (lpb' = lpb /\ ~NewCall)]_vars

\* C2: every target-chain deposit in a block <= last_processed_block has its
\* nonce in completed_nonces.
C2_NothingUnsettledBehind ==
  pc # "down" =>
    \A e \in chain :
      (e.block <= lpb /\ e.destinationChainId = target_chain_id) => e.nonce \in completed

\* C3: for a nonce (of a source contract that never reuses one) at most one
\* mint transaction is executed with success on the destination chain.
C3_AtMostOneMint ==
  [][(UniqueNonces /\ NewCall /\ TheCall.executed) => TheCall.rec.nonce \notin minted]_vars

\* C4: when the nonce of the record is in completed_nonces, the call returns
\* True without execute_mint or get_transaction_receipt, and changes nothing.
C4_CompletedNotDispatched ==
  [][(pc = "batch" /\ Head(pending).nonce \in completed /\ Running) =>
       /\ NewCall
       /\ TheCall.path \in ReturnsTrue
       /\ TheCall.path \notin Dispatching \cup ReceiptFetched
       /\ minted' = minted
       /\ state' = state]_vars

\* C4 witness: a second record with a nonce marked earlier in the same window
\* was settled at the state check.
C4_Witness ==
  \E i, j \in DOMAIN processed :
    /\ i < j
    /\ processed[i].path = "confirmed"
    /\ processed[j].path = "already_done"
    /\ processed[j].rec.nonce = processed[i].rec.nonce

\* C5: within one window, when the records visited have distinct
\* (nonce, log_index), execute_mint is invoked in strictly ascending
\* (nonce, log_index) order.
C5_DispatchAscending ==
  (\A i, j \in DOMAIN processed :
     i # j => <<processed[i].rec.nonce, processed[i].rec.log_index>>
              # <<processed[j].rec.nonce, processed[j].rec.log_index>>)
  => \A i, j \in DOMAIN processed :
       (i < j /\ processed[i].path \in Dispatching /\ processed[j].path \in Dispatching)
       => KeyLess(processed[i].rec, processed[j].rec)

\* C5 witness: two dispatches in one window, the later log first in key order.
C5_Witness ==
  \E i, j \in DOMAIN processed :
    /\ i < j
    /\ processed[i].path \in Dispatching
    /\ processed[j].path \in Dispatching
    /\ processed[i].rec.block > processed[j].rec.block

\* C6 as claimed: over the whole run, a nonce is never added after a larger one.
C6_GlobalOrder ==
  [][Running => \A n \in completed' \ completed : \A m \in completed : m < n]_vars

\* C6 amended: within one iteration, the nonces are added in ascending order.
C6_WindowOrder ==
  \A i, j \in DOMAIN processed :
    (i < j /\ processed[i].path \in Marking /\ processed[j].path \in Marking)
    => processed[i].rec.nonce < processed[j].rec.nonce

\* C6 witness: two nonces added in one iteration, the larger from the earlier block.
C6_Witness ==
  \E i, j \in DOMAIN processed :
    /\ i < j
    /\ processed[i].path = "confirmed"
    /\ processed[j].path = "confirmed"
    /\ processed[i].rec.block > processed[j].rec.block

\* C7: completed_nonces only grows, and a nonce is added only by a call whose
\* receipt reported status 1.
C7_GrowsOnConfirmation ==
  [][Running =>
       /\ completed \subseteq completed'
       /\ \A n \in completed' \ completed :
            NewCall /\ TheCall.rec.nonce = n /\ TheCall.status = 1]_vars

\* C7 witness: a nonce was added after a confirmed mint.
C7_Witness ==
  \E i \in DOMAIN processed :
    processed[i].path = "confirmed" /\ processed[i].rec.nonce \in completed

\* C8: last_processed_block never decreases while the engine runs, whatever
\* heights the source reports.
C8_BlockMonotonic ==
  [][Running => lpb' >= lpb]_vars

\* C8 witness: the high-water mark is at the top of the chain, so every
\* height reported from here on is at or below it.
C8_Witness == pc = "poll" /\ lpb = MaxBlock

\* C9: once a record returned False in a window, no record that sorted after
\* it in that window has its nonce added (by being processed, in the same
\* process) before the failed record's nonce is in completed_nonces.
C9_NoOvertaking ==
  [][Running =>
       \A pr \in held_back :
         (NewCall /\ TheCall.rec = pr[2] /\ TheCall.path \in Marking)
         => pr[1].nonce \in completed]_vars

\* C9 witness: a record failed with records still to visit after it.
C9_Witness == pc # "down" /\ held_back # {}

\* C10: after an iteration in which a record failed, the next iteration
\* derives the same from_block (so the failed record is scanned again).
C10_RetryFromSameBlock ==
  [][(Halted /\ pc = "commit" /\ pc' = "poll") => lpb' + 1 = from_block]_vars

\* C11: a record bound for another chain is skipped: the call returns True
\* at the filter, whatever the environment would have answered and whether
\* or not the nonce is completed; no oracle lookup, no execute_mint, no
\* receipt, and the state, the file and the mints stay as they were.
C11_OtherChainSkipped ==
  [][(pc = "batch" /\ Head(pending).destinationChainId # target_chain_id /\ Running) =>
       /\ NewCall
       /\ TheCall.rec = Head(pending)
       /\ TheCall.path = "other_chain"
       /\ TheCall.path \in ReturnsTrue \ (Dispatching \cup ReceiptFetched)
       /\ TheCall.status = -1
       /\ ~TheCall.executed
       /\ state' = state
       /\ file' = file
       /\ minted' = minted]_vars

\* C11 witness: a record for another chain was skipped although its nonce
\* is completed.
C11_Witness ==
  \E i \in DOMAIN processed :
    /\ processed[i].path = "other_chain"
    /\ processed[i].rec.destinationChainId # target_chain_id
    /\ processed[i].rec.nonce \in completed

\* C12: the window of an iteration that scans starts at
\* last_processed_block + 1, ends at
\* min(latest_block, from_block + block_scan_range - 1), holds at most
\* block_scan_range blocks and does not reach past latest_block.
C12_WindowBounds ==
  pc \in {"batch", "commit"} =>
    /\ from_block = lpb + 1
    /\ to_block = Min(latest_block, from_block + block_scan_range - 1)
    /\ to_block - from_block + 1 <= block_scan_range
    /\ to_block <= latest_block

\* C13: an iteration whose from_block is above latest_block goes to sleep
\* with no log fetched and no record dispatched; last_processed_block and
\* completed_nonces, in memory and in the file, and the mints are untouched.
C13_NoNewBlocksIdle ==
  [][(pc = "poll" /\ Running /\ from_block' > latest_block') =>
       /\ pc' = "idle"
       /\ pending' = <<>>
       /\ processed' = <<>>
       /\ undecodable' = {}
       /\ state' = state
       /\ file' = file
       /\ minted' = minted]_vars

\* C13 witness: the loop sleeps for want of new blocks with blocks and
\* nonces on record.
C13_Witness ==
  /\ pc = "idle"
  /\ from_block > latest_block
  /\ lpb > 0
  /\ completed # {}
  /\ file.valid

\* A sequence without a repeated element.
NoDuplicate(s) == \A i, j \in DOMAIN s : s[i] = s[j] => i = j

\* C14: completed_nonces, in memory and in the file, holds each nonce at
\* most once, and marking a nonce a second time changes nothing.
C14_MarkIdempotent ==
  /\ NoDuplicate(state.completed_nonces)
  /\ NoDuplicate(file.content.completed_nonces)
  /\ \A nonce \in Nonces :
       LET once == mark_nonce_as_processed(state, nonce) IN
       /\ is_nonce_processed(once, nonce)
       /\ NoDuplicate(once.completed_nonces)
       /\ mark_nonce_as_processed(once, nonce) = once

\* C14 witness: two records of one window carried the same nonce, the first
\* was confirmed, and completed_nonces holds that nonce once.
C14_Witness ==
  \E i, j \in DOMAIN processed :
    /\ i < j
    /\ processed[i].rec.nonce = processed[j].rec.nonce
    /\ processed[i].path \in Marking
    /\ Cardinality({k \in DOMAIN state.completed_nonces :
                      state.completed_nonces[k] = processed[i].rec.nonce}) = 1

\* C15: between two store operations the file holds what the memory holds:
\* a StateDB constructed on the same path loads the in-memory state (so in
\* particular after set_last_processed_block or mark_nonce_as_processed
\* returns).
C15_FileMatchesMemory == pc # "down" => _load(file) = state

\* The state of a file that was written to the end.
committed == file.content

\* C16: a crash, wherever it hits (a flush included), leaves in the file,
\* for the restart to load, every nonce and the block committed by the
\* store calls that had returned.
C16_CrashKeepsCommitted ==
  [][(pc # "down" /\ pc' = "down" /\ file.valid) =>
       /\ file'.valid
       /\ get_last_processed_block(_load(file')) >= get_last_processed_block(committed)
       /\ Range(committed.completed_nonces) \subseteq Range(_load(file').completed_nonces)]_vars

\* C17: when process_log raises on one log of a window, the other logs of
\* the window are still returned, and go to the for loop in sorted order.
C17_OnlyBadLogDropped ==
  [][(pc = "poll" /\ undecodable' # {}) =>
       Range(pending') = get_events(chain, from_block', to_block') \ undecodable']_vars

\* The calls that end without a receipt of status 1 in hand.
Unconfirmed == {"dispatch_failed", "receipt_error", "reverted"}

\* C18: a call for a record of the target chain with a nonce not completed
\* that gets no receipt of status 1 (no hash from execute_mint, and then no
\* receipt is fetched; the fetch raises; the status is not 1) returns False
\* and leaves completed_nonces and last_processed_block, in memory and in
\* the file, as they were.
C18_FailureLeavesState ==
  [][(/\ pc = "batch"
      /\ NewCall
      /\ TheCall.rec.destinationChainId = target_chain_id
      /\ TheCall.rec.nonce \notin completed
      /\ TheCall.status # 1) =>
       /\ TheCall.path \in Unconfirmed
       /\ TheCall.path \in ReturnsFalse
       /\ TheCall.path = "dispatch_failed" => TheCall.path \notin ReceiptFetched
       /\ state' = state
       /\ file' = file]_vars

\* C18 witness: with a nonce on record, a call for a nonce not completed has
\* ended without a receipt of status 1.
C18_Witness ==
  /\ completed # {}
  /\ \E i \in DOMAIN processed :
       /\ processed[i].path \in Unconfirmed
       /\ processed[i].rec.nonce \notin completed

\* C19: whatever the oracle does (answers, fails, answers without the
\* expected fields), a call for a record of the target chain with a nonce
\* not completed goes on to dispatch the mint.
C19_OracleNeverBlocks ==
  [][(/\ pc = "batch"
      /\ Running
      /\ Head(pending).destinationChainId = target_chain_id
      /\ Head(pending).nonce \notin completed) =>
       /\ NewCall
       /\ TheCall.path \in Dispatching]_vars

\* C20: an iteration that ends in the except block of run has not advanced
\* last_processed_block, has added no nonce at its failing step, and holds
\* no nonce without an executed mint.
C20_FailedIterationHarmless ==
  [][(pc # "caught" /\ pc' = "caught") =>
       /\ lpb' = lpb
       /\ completed' = completed
       /\ completed' \subseteq minted']_vars

\* The block after which the next window starts: last_processed_block of
\* the running process, or of the state a restart will load.
resume_block ==
  IF pc = "down" THEN get_last_processed_block(_load(file)) ELSE lpb

\* C21: the committed windows tile the source chain: the block the next
\* window starts after moves only when an iteration commits, and then from
\* from_block - 1 to the to_block of a non-empty window that does not reach
\* past latest_block; so no block is left out, none is in two committed
\* windows, and none above the observed height is committed.
C21_WindowsTile ==
  [][resume_block' # resume_block =>
       /\ pc = "commit"
       /\ resume_block = from_block - 1
       /\ from_block <= to_block
       /\ to_block <= latest_block
       /\ resume_block' = to_block]_vars

====
